---- MODULE Spec2Model ----
(***************************************************************************)
(* Model of html-calendar-rs (src/main.rs): the calendar view model        *)
(* Month / Day, its constructors Month::new and                            *)
(* Month::from_date_notation, and the GET / route closure of main.         *)
(*                                                                         *)
(* Strings are sequences of one-character strings, so that splitting,      *)
(* integer parsing and integer formatting are computed character by        *)
(* character.  64-bit integers are four 16-bit limbs, least significant    *)
(* first, so that the `as i32` / `as u32` casts keep their width.          *)
(* A panic (unwinding out of the function) is the value Panic.             *)
(***************************************************************************)
EXTENDS Integers, Sequences, FiniteSets, TLC

VARIABLES pc, call, ret

vars == <<pc, call, ret>>

\* ------------------------------------------------------------------------
\* Bounds of the explored inputs
\* ------------------------------------------------------------------------

\* years explored on each side of every anchor year
YearSpan == 2

\* largest number of `-`-separated segments in a generated notation string
MaxSegments == 3

\* ------------------------------------------------------------------------
\* Values shared by the operations
\* ------------------------------------------------------------------------

None == [tag |-> "None"]

Panic == [tag |-> "Panic"]

Some(v) == [tag |-> "Some", val |-> v]

\* chrono 0.4 NaiveDate: the years a date can hold (i32::MIN >> 13, i32::MAX >> 13).
\* Later 0.4 releases take one year off each end; nothing below depends on
\* which of the two ranges is in force.
MIN_YEAR == -262144

MAX_YEAR == 262143

\* ------------------------------------------------------------------------
\* Characters and decimal text
\* ------------------------------------------------------------------------

Digits == <<"0", "1", "2", "3", "4", "5", "6", "7", "8", "9">>

IsDigit(c) == \E i \in 1..10 : Digits[i] = c

DigitOf(c) == (CHOOSE i \in 1..10 : Digits[i] = c) - 1

RECURSIVE NatToString(_)
\* u32 / non-negative integer Display: decimal digits, no leading zeros
NatToString(n) ==
    IF n < 10 THEN <<Digits[n + 1]>>
    ELSE NatToString(n \div 10) \o <<Digits[(n % 10) + 1]>>

\* i32 Display: a leading `-` for negative values
I32ToString(n) == IF n < 0 THEN <<"-">> \o NatToString(0 - n) ELSE NatToString(n)

\* ------------------------------------------------------------------------
\* 64-bit integers as limbs; str::parse::<i64> and the narrowing casts
\* ------------------------------------------------------------------------

Base == 65536

HalfBase == 32768

ZeroLimbs == <<0, 0, 0, 0>>

\* limbs * 10 + d, with the carry out of the top limb
MulAdd(l, d) ==
    LET t1 == l[1] * 10 + d
        t2 == l[2] * 10 + (t1 \div Base)
        t3 == l[3] * 10 + (t2 \div Base)
        t4 == l[4] * 10 + (t3 \div Base)
    IN [limbs |-> <<t1 % Base, t2 % Base, t3 % Base, t4 % Base>>,
        carry |-> t4 \div Base]

\* two's complement negation of a 64-bit value
Negate(l) ==
    LET t1 == (Base - 1 - l[1]) + 1
        t2 == (Base - 1 - l[2]) + (t1 \div Base)
        t3 == (Base - 1 - l[3]) + (t2 \div Base)
        t4 == (Base - 1 - l[4]) + (t3 \div Base)
    IN <<t1 % Base, t2 % Base, t3 % Base, t4 % Base>>

\* the magnitude in r does not fit an i64 of the given sign
Overflows(r, neg) ==
    \/ r.carry > 0
    \/ r.limbs[4] > HalfBase
    \/ r.limbs[4] = HalfBase /\ ~neg
    \/ r.limbs[4] = HalfBase /\ neg /\ <<r.limbs[1], r.limbs[2], r.limbs[3]>> # <<0, 0, 0>>

RECURSIVE ParseDigits(_, _, _)
\* checked accumulation of the digits: Err on a non-digit or on overflow
ParseDigits(ds, acc, neg) ==
    IF ds = <<>> THEN Some(IF neg THEN Negate(acc) ELSE acc)
    ELSE IF ~IsDigit(Head(ds)) THEN None
    ELSE LET r == MulAdd(acc, DigitOf(Head(ds)))
         IN IF Overflows(r, neg) THEN None
            ELSE ParseDigits(Tail(ds), r.limbs, neg)

\* s.parse::<i64>().ok(): empty text, a lone sign, a non-digit or an
\* out-of-range value give None
parse_i64(s) ==
    IF s = <<>> THEN None
    ELSE IF Head(s) \in {"+", "-"}
         THEN IF Len(s) = 1 THEN None
              ELSE ParseDigits(Tail(s), ZeroLimbs, Head(s) = "-")
    ELSE ParseDigits(s, ZeroLimbs, FALSE)

\* `as i32`: the low 32 bits read as a signed value
as_i32(l) ==
    IF l[2] >= HalfBase THEN (l[2] - Base) * Base + l[1] ELSE l[2] * Base + l[1]

\* `as u32`: the low 32 bits, kept as two limbs <<low, high>>
as_u32(l) == <<l[1], l[2]>>

\* a small non-negative number as a u32
U32(n) == <<n % Base, n \div Base>>

\* ------------------------------------------------------------------------
\* str::split("-")
\* ------------------------------------------------------------------------

HasDash(s) == \E i \in 1..Len(s) : s[i] = "-"

FirstDash(s) == CHOOSE i \in 1..Len(s) : s[i] = "-" /\ \A j \in 1..(i - 1) : s[j] # "-"

\* Split as str::splitn(2, "-") would do it: cut at the first `-` only
Split_first_only(s) ==
    IF ~HasDash(s) THEN <<s>>
    ELSE <<SubSeq(s, 1, FirstDash(s) - 1), SubSeq(s, FirstDash(s) + 1, Len(s))>>

RECURSIVE Split(_)
\* every `-` separates two segments; a string without `-` is one segment
Split(s) ==
    IF ~HasDash(s) THEN <<s>>
    ELSE <<SubSeq(s, 1, FirstDash(s) - 1)>> \o Split(SubSeq(s, FirstDash(s) + 1, Len(s)))

\* ------------------------------------------------------------------------
\* chrono: civil dates of the proleptic Gregorian calendar
\* ------------------------------------------------------------------------

\* days from 1970-01-01 to the civil date y-m-d
days_from_civil(y, m, d) ==
    LET yy  == IF m <= 2 THEN y - 1 ELSE y
        era == yy \div 400
        yoe == yy - era * 400
        mp  == IF m > 2 THEN m - 3 ELSE m + 9
        doy == (153 * mp + 2) \div 5 + d - 1
        doe == yoe * 365 + yoe \div 4 - yoe \div 100 + doy
    IN era * 146097 + doe - 719468

\* the civil date <<y, m, d>> that lies z days after 1970-01-01
civil_from_days(z) ==
    LET zz  == z + 719468
        era == zz \div 146097
        doe == zz - era * 146097
        yoe == (doe - doe \div 1460 + doe \div 36524 - doe \div 146096) \div 365
        doy == doe - (365 * yoe + yoe \div 4 - yoe \div 100)
        mp  == (5 * doy + 2) \div 153
        d   == doy - (153 * mp + 2) \div 5 + 1
        m   == IF mp < 10 THEN mp + 3 ELSE mp - 9
        y   == yoe + era * 400
    IN <<IF m <= 2 THEN y + 1 ELSE y, m, d>>

\* NaiveDate::from_ymd(year, month, day): the date, or a panic when the
\* triple is not a date of the calendar or the year is out of range.
\* month is a u32 <<low, high>>, day a small integer.
from_ymd(year, month, day) ==
    IF \/ year < MIN_YEAR \/ year > MAX_YEAR
       \/ month[2] # 0 \/ month[1] < 1 \/ month[1] > 12
       \/ day < 1 \/ day > 31
    THEN Panic
    ELSE IF civil_from_days(days_from_civil(year, month[1], day)) # <<year, month[1], day>>
         THEN Panic
         ELSE [tag |-> "Date", year |-> year, month |-> month[1], day |-> day]

\* date.weekday().number_from_monday(): Monday = 1 .. Sunday = 7
number_from_monday(date) ==
    ((days_from_civil(date.year, date.month, date.day) + 3) % 7) + 1

\* next.signed_duration_since(date).num_days()
num_days_since(next, date) ==
    days_from_civil(next.year, next.month, next.day)
        - days_from_civil(date.year, date.month, date.day)

\* chrono::Month::from_u32: the month of that number, None outside 1..12
Month_from_u32(n) == IF n \in 1..12 THEN Some(n) ELSE None

\* chrono::Month::succ followed by number_from_month: December wraps to January
succ_number(month) == IF month = 12 THEN 1 ELSE month + 1

\* ------------------------------------------------------------------------
\* Day
\* ------------------------------------------------------------------------

\* Day::empty
Day_empty == [txt |-> <<>>, red |-> FALSE]

\* Day::from with only Sunday red
Day_from_sunday_only(date) ==
    [txt |-> NatToString(date.day), red |-> number_from_monday(date) = 7]

\* impl From<NaiveDate> for Day: red on Saturday (6) and Sunday (7)
Day_from(date) ==
    [txt |-> NatToString(date.day),
     red |-> number_from_monday(date) = 7 \/ number_from_monday(date) = 6]

\* ------------------------------------------------------------------------
\* Month
\* ------------------------------------------------------------------------

\* the match on chrono::Month (the Russian names, transliterated)
month_rus(month) ==
    <<"Yanvar", "Fevral", "Mart", "Aprel", "Mai", "Iyun", "Iyul", "Avgust",
      "Sentyabr", "Oktyabr", "Noyabr", "Dekabr">>[month]

\* format!("{} {}", month_rus, year)
month_name(month, year) == <<month_rus(month), " ">> \o I32ToString(year)

\* next_months_year without the step into the next year
next_months_year_same(date, next_month) == date.year

\* the year the next month lies in
next_months_year(date, next_month) ==
    IF next_month > date.month THEN date.year ELSE date.year + 1

\* iter::repeat(None).take(n): n placeholders
repeat_none(n) == [i \in 1..n |-> None]

\* (1..=days_in_month).map(Some): empty when days_in_month < 1
day_numbers(days_in_month) ==
    IF days_in_month < 1 THEN <<>> ELSE [i \in 1..days_in_month |-> Some(i)]

RECURSIVE chunks_padded(_, _)
\* chunks that fills a short last group up to n with empty cells
chunks_padded(v, n) ==
    IF Len(v) = 0 THEN <<>>
    ELSE IF Len(v) <= n THEN <<v \o [i \in 1..(n - Len(v)) |-> Day_empty]>>
    ELSE <<SubSeq(v, 1, n)>> \o chunks_padded(SubSeq(v, n + 1, Len(v)), n)

RECURSIVE chunks(_, _)
\* slice::chunks(n): consecutive groups of n, the last one possibly shorter
chunks(v, n) ==
    IF Len(v) = 0 THEN <<>>
    ELSE IF Len(v) <= n THEN <<v>>
    ELSE <<SubSeq(v, 1, n)>> \o chunks(SubSeq(v, n + 1, Len(v)), n)

\* the cells of the table: placeholders, then one date per day, each made a Day
month_rows(order, year, weekday, days_in_month) ==
    LET slots == repeat_none(weekday - 1) \o day_numbers(days_in_month)
        dates == [i \in 1..Len(slots) |->
                    IF slots[i] = None THEN None
                    ELSE from_ymd(year, order, slots[i].val)]
    IN IF \E i \in 1..Len(dates) : dates[i] = Panic THEN Panic
       ELSE Some(chunks([i \in 1..Len(dates) |->
                            IF dates[i] = None THEN Day_empty ELSE Day_from(dates[i])],
                        7))

\* Month::new(order, year)
Month_new(order, year) ==
    LET date == from_ymd(year, order, 1)
    IN IF date = Panic THEN Panic
       ELSE LET month == Month_from_u32(date.month)
            IN IF month = None THEN None
               ELSE LET weekday         == number_from_monday(date)
                        next_month      == succ_number(month.val)
                        next_month_date == from_ymd(next_months_year(date, next_month),
                                                    U32(next_month), 1)
                    IN IF next_month_date = Panic THEN Panic
                       ELSE LET days_in_month == num_days_since(next_month_date, date)
                                rows == month_rows(order, year, weekday, days_in_month)
                            IN IF rows = Panic THEN Panic
                               ELSE Some([name |-> month_name(month.val, year),
                                          days |-> rows.val])

\* Month::from_date_notation(date_notation)
Month_from_date_notation(date_notation) ==
    LET iter == Split(date_notation)
        first == parse_i64(iter[1])
    IN IF first = None THEN None
       ELSE IF Len(iter) < 2 THEN None
       ELSE LET second == parse_i64(iter[2])
            IN IF second = None THEN None
               ELSE Month_new(as_u32(second.val), as_i32(first.val))

\* ------------------------------------------------------------------------
\* main: the GET / route closure
\* ------------------------------------------------------------------------

\* Month::new(3, 2017): the month shown when the parameter gives none
default_month == Month_new(U32(3), 2017)

\* handlebars.render(..).unwrap_or_else(|e| e.to_string()): the page of the
\* month, or the text of the template error
render(month, render_ok) ==
    IF render_ok THEN [kind |-> "page", month |-> month]
    ELSE [kind |-> "error_text"]

\* the closure: p is the `month` query parameter (None when absent)
route(p, render_ok) ==
    LET month == IF p = None THEN None ELSE Month_from_date_notation(p.val)
    IN IF month = Panic \/ default_month.tag # "Some" THEN Panic
       ELSE [tag |-> "Reply",
             body |-> render(IF month = None THEN default_month.val ELSE month.val,
                             render_ok)]

\* ------------------------------------------------------------------------
\* Inputs
\* ------------------------------------------------------------------------

\* years around which the constructor is explored: both ends of the date
\* library's range, year 0, a non-leap and a leap century year, and the
\* years of the default month and of the documented example
AnchorYears == {MIN_YEAR, 0, 1900, 2000, 2019, MAX_YEAR}

Years == UNION {(a - YearSpan)..(a + YearSpan) : a \in AnchorYears}

\* month numbers handed to Month::new: 0..13 and two numbers that are only
\* in 1..12 after a narrowing to 16 bits
Orders == {U32(n) : n \in 0..13} \cup {U32(Base + 1), U32(Base + 12)}

\* segments the generated notation strings are made of
Segments ==
    { <<>>, <<"a">>, <<"1">>, <<"0", "3">>, <<"1", "3">>, <<"+", "5">>,
      <<"2", "0", "2", "1">>,
      <<"2", "6", "2", "1", "4", "4">>,
      <<"4", "2", "9", "4", "9", "6", "7", "2", "9", "7">> }

RECURSIVE Join(_)
\* the segments with a `-` between neighbours
Join(segs) ==
    IF Len(segs) = 1 THEN segs[1]
    ELSE segs[1] \o <<"-">> \o Join(Tail(segs))

\* strings named by the documentation and strings at the integer limits:
\* "not-a-date", "2021-0", "2020-02", "4294969313-03" (2^32 + 2017),
\* "9223372036854775807-12" (i64::MAX), "9223372036854775808-12",
\* "2021-03-15", "-1-03", " 2021-03"
NamedNotations ==
    { <<"n", "o", "t", "-", "a", "-", "d", "a", "t", "e">>,
      <<"2", "0", "2", "1", "-", "0">>,
      <<"2", "0", "2", "0", "-", "0", "2">>,
      <<"4", "2", "9", "4", "9", "6", "9", "3", "1", "3", "-", "0", "3">>,
      <<"9", "2", "2", "3", "3", "7", "2", "0", "3", "6", "8", "5", "4", "7", "7",
        "5", "8", "0", "7", "-", "1", "2">>,
      <<"9", "2", "2", "3", "3", "7", "2", "0", "3", "6", "8", "5", "4", "7", "7",
        "5", "8", "0", "8", "-", "1", "2">>,
      <<"2", "0", "2", "1", "-", "0", "3", "-", "1", "5">>,
      <<"-", "1", "-", "0", "3">>,
      <<" ", "2", "0", "2", "1", "-", "0", "3">> }

Notations ==
    NamedNotations
        \cup UNION {{Join(segs) : segs \in [1..k -> Segments]} : k \in 1..MaxSegments}

\* ------------------------------------------------------------------------
\* The program: calls of the two constructors and requests to GET /
\* ------------------------------------------------------------------------

NoCall == [op |-> "none"]

Init ==
    /\ pc = "idle"
    /\ call = NoCall
    /\ ret = NoCall

\* a call of Month::new(order, year), run to its return or panic
New(order, year) ==
    /\ pc = "idle"
    /\ pc' = "returned"
    /\ call' = [op |-> "new", order |-> order, year |-> year]
    /\ ret' = Month_new(order, year)

\* a call of Month::from_date_notation(s), run to its return or panic
FromDateNotation(s) ==
    /\ pc = "idle"
    /\ pc' = "returned"
    /\ call' = [op |-> "from_date_notation", notation |-> s]
    /\ ret' = Month_from_date_notation(s)

\* one GET / request, from the query parameter to the reply (or the panic
\* of the closure); the template engine either renders or reports an error
Get(p, render_ok) ==
    /\ pc = "idle"
    /\ pc' = "returned"
    /\ call' = [op |-> "get", param |-> p, render_ok |-> render_ok]
    /\ ret' = route(p, render_ok)

\* the result is handed over and dropped; nothing outlives the call
Finish ==
    /\ pc = "returned"
    /\ pc' = "idle"
    /\ call' = NoCall
    /\ ret' = NoCall

Next ==
    \/ \E order \in Orders, year \in Years : New(order, year)
    \/ \E s \in Notations : FromDateNotation(s)
    \/ \E p \in {None} \cup {Some(s) : s \in Notations}, render_ok \in BOOLEAN :
          Get(p, render_ok)
    \/ Finish

Spec == Init /\ [][Next]_vars

\* ------------------------------------------------------------------------
\* Reference notions the properties are stated with.  They are written
\* from the calendar rules and from the text format, not from the
\* operators above.
\* ------------------------------------------------------------------------

\* the call in progress has returned or panicked
Returned(op) == pc = "returned" /\ call.op = op

\* a u32 month number that lies in 1..12
ValidOrder(order) == order[2] = 0 /\ order[1] \in 1..12

IsLeapYear(y) == y % 4 = 0 /\ (y % 100 # 0 \/ y % 400 = 0)

\* length of month m of year y in the proleptic Gregorian calendar
GregorianLength(y, m) ==
    IF m \in {1, 3, 5, 7, 8, 10, 12} THEN 31
    ELSE IF m \in {4, 6, 9, 11} THEN 30
    ELSE IF IsLeapYear(y) THEN 29 ELSE 28

\* weekday of y-m-d, Monday = 1 .. Sunday = 7, by the table method
ReferenceWeekday(y, m, d) ==
    LET yy == IF m < 3 THEN y - 1 ELSE y
        t  == <<0, 3, 2, 5, 0, 3, 5, 1, 4, 6, 2, 4>>
        w  == (yy + yy \div 4 - yy \div 100 + yy \div 400 + t[m] + d) % 7
    IN IF w = 0 THEN 7 ELSE w

\* decimal text of a number below 100
DecimalText(n) ==
    IF n < 10 THEN <<Digits[n + 1]>> ELSE <<Digits[(n \div 10) + 1], Digits[(n % 10) + 1]>>

EmptyCell == [txt |-> <<>>, red |-> FALSE]

RECURSIVE Flatten(_)
\* the rows of a grid, concatenated in order
Flatten(rows) == IF rows = <<>> THEN <<>> ELSE Head(rows) \o Flatten(Tail(rows))

\* number of cells of the grid that carry a day number
PopulatedCount(rows) ==
    Cardinality({i \in 1..Len(Flatten(rows)) : Flatten(rows)[i].txt # <<>>})

\* the flat sequence a month is laid out from: padding up to the weekday of
\* day 1, then one cell per day, red on Saturday and Sunday
ExpectedFlat(y, m) ==
    [i \in 1..(ReferenceWeekday(y, m, 1) - 1) |-> EmptyCell]
        \o [d \in 1..GregorianLength(y, m) |->
                [txt |-> DecimalText(d), red |-> ReferenceWeekday(y, m, d) \in {6, 7}]]

\* positions of the `-` characters of a string
DashPositions(s) == {i \in 1..Len(s) : s[i] = "-"}

Least(S) == CHOOSE i \in S : \A j \in S : i <= j

\* position of the first `-`, and of the second one (or just past the end)
Dash1(s) == Least(DashPositions(s))

Dash2(s) ==
    IF Cardinality(DashPositions(s)) > 1
    THEN Least(DashPositions(s) \ {Dash1(s)})
    ELSE Len(s) + 1

RECURSIVE StripZeros(_)
\* digits without their leading zeros (at least one digit is kept)
StripZeros(ds) == IF Len(ds) > 1 /\ Head(ds) = "0" THEN StripZeros(Tail(ds)) ELSE ds

\* a, b digit strings of one length: a is at most b
DigitsLeq(a, b) ==
    \/ a = b
    \/ \E i \in 1..Len(a) :
          /\ DigitOf(a[i]) < DigitOf(b[i])
          /\ \A j \in 1..(i - 1) : a[j] = b[j]

I64MaxText ==
    <<"9", "2", "2", "3", "3", "7", "2", "0", "3", "6", "8", "5", "4", "7", "7",
      "5", "8", "0", "7">>

I64MinText ==
    <<"9", "2", "2", "3", "3", "7", "2", "0", "3", "6", "8", "5", "4", "7", "7",
      "5", "8", "0", "8">>

\* the text is a decimal integer that fits 64 bits: an optional sign, then
\* at least one digit and digits only
ValidIntegerText(t) ==
    LET signed == Len(t) > 0 /\ t[1] \in {"+", "-"}
        ds     == IF signed THEN Tail(t) ELSE t
        limit  == IF signed /\ t[1] = "-" THEN I64MinText ELSE I64MaxText
    IN /\ Len(ds) > 0
       /\ \A i \in 1..Len(ds) : IsDigit(ds[i])
       /\ \/ Len(StripZeros(ds)) < Len(limit)
          \/ Len(StripZeros(ds)) = Len(limit) /\ DigitsLeq(StripZeros(ds), limit)

\* the text of a month number in 1..12, after an optional `+` and zeros
MonthText(t) ==
    LET ds == IF Len(t) > 0 /\ t[1] = "+" THEN Tail(t) ELSE t
    IN Len(ds) > 0 /\ StripZeros(ds) \in {DecimalText(m) : m \in 1..12}

\* "<y>-<m>", the month zero-padded to two digits when pad holds
NotationText(y, m, pad) ==
    I32ToString(y) \o <<"-">>
        \o (IF pad /\ m < 10 THEN <<"0">> ELSE <<>>) \o DecimalText(m)

\* ------------------------------------------------------------------------
\* Properties
\* ------------------------------------------------------------------------

\* C1: for every month in 1..12 and every year of the supported range,
\* Month::new succeeds and its rows, concatenated, are (weekday - 1) empty
\* cells followed by the cells "1", "2", .. of all days of the month.
C1_NewSucceedsWithGrid ==
    (Returned("new") /\ ValidOrder(call.order) /\ call.year \in MIN_YEAR..MAX_YEAR)
        => /\ ret.tag = "Some"
           /\ LET flat == Flatten(ret.val.days)
                  pad  == ReferenceWeekday(call.year, call.order[1], 1) - 1
                  n    == GregorianLength(call.year, call.order[1])
              IN /\ Len(flat) = pad + n
                 /\ \A i \in 1..pad : flat[i] = EmptyCell
                 /\ \A d \in 1..n : flat[pad + d].txt = DecimalText(d)

\* C2: Month::new with a month number outside 1..12 returns None: it
\* neither panics nor returns a Month.  Stated for the years the date
\* library can represent, where the month number is the only invalid input.
C2_InvalidMonthIsNone ==
    (Returned("new") /\ ~ValidOrder(call.order) /\ call.year \in MIN_YEAR..MAX_YEAR)
        => ret = None

\* C3: every GET / request is answered with the page of the requested
\* month, the page of the default month, or the template error text; no
\* parameter makes the closure panic.
C3_AlwaysAPage ==
    Returned("get")
        => /\ ret.tag = "Reply"
           /\ \/ ret.body.kind = "error_text"
              \/ /\ ret.body.kind = "page"
                 /\ \/ ret.body.month = default_month.val
                    \/ /\ call.param # None
                       /\ Some(ret.body.month) = Month_from_date_notation(call.param.val)

\* C4: for every signed year y and month m in 1..12, from_date_notation of
\* "<y>-<m>" (month optionally zero-padded) gives what Month::new(m, y) gives.
C4_NotationEqualsNew ==
    Returned("from_date_notation")
        => \A y \in Years, m \in 1..12, pad \in BOOLEAN :
              call.notation = NotationText(y, m, pad) => ret = Month_new(U32(m), y)

\* C5 as written: the string is split at its first `-` only, and whenever
\* there is no `-` or the text before or the text after it is not an
\* integer, no Month is returned.
C5_SplitOnFirstDash ==
    (/\ Returned("from_date_notation")
     /\ \/ DashPositions(call.notation) = {}
        \/ ~ValidIntegerText(SubSeq(call.notation, 1, Dash1(call.notation) - 1))
        \/ ~ValidIntegerText(SubSeq(call.notation, Dash1(call.notation) + 1,
                                    Len(call.notation))))
        => ret.tag # "Some"

\* C5 amended: the string is split at every `-` and only the first two
\* segments count: without a `-`, or when the first or the second segment
\* is not an integer, the result is None; what follows a second `-` is
\* ignored, the result being that of the string cut before that `-`.
C5_FirstTwoSegments ==
    Returned("from_date_notation")
        => LET s == call.notation
           IN /\ (\/ DashPositions(s) = {}
                  \/ ~ValidIntegerText(SubSeq(s, 1, Dash1(s) - 1))
                  \/ ~ValidIntegerText(SubSeq(s, Dash1(s) + 1, Dash2(s) - 1)))
                    => ret = None
              /\ Cardinality(DashPositions(s)) > 1
                    => ret = Month_from_date_notation(SubSeq(s, 1, Dash2(s) - 1))

\* a string with a third segment was given and a Month came back
C5_Witness ==
    /\ Returned("from_date_notation")
    /\ Cardinality(DashPositions(call.notation)) = 2
    /\ ~ValidIntegerText(SubSeq(call.notation, Dash1(call.notation) + 1,
                                Len(call.notation)))
    /\ ret.tag = "Some"

\* C6: when both segments parse and the month written is outside 1..12,
\* from_date_notation returns None: no Month of a narrowed month number,
\* and no panic.
C6_OutOfRangeMonthIsNone ==
    (/\ Returned("from_date_notation")
     /\ DashPositions(call.notation) # {}
     /\ LET s == call.notation
        IN /\ ValidIntegerText(SubSeq(s, 1, Dash1(s) - 1))
           /\ ValidIntegerText(SubSeq(s, Dash1(s) + 1, Dash2(s) - 1))
           /\ ~MonthText(SubSeq(s, Dash1(s) + 1, Dash2(s) - 1)))
        => ret = None

\* C7: a Month returned by Month::new has as many populated cells as the
\* month has days in the proleptic Gregorian calendar, December included.
C7_DaysInMonth ==
    (Returned("new") /\ ret.tag = "Some")
        => /\ ValidOrder(call.order)
           /\ PopulatedCount(ret.val.days) = GregorianLength(call.year, call.order[1])

\* December 2021 was built, with 31 populated cells
C7_Witness ==
    /\ Returned("new")
    /\ call.order = U32(12) /\ call.year = 2021
    /\ ret.tag = "Some"
    /\ PopulatedCount(ret.val.days) = 31

\* C8: in a Month returned by Month::new a cell is red exactly when it is
\* populated and its date is a Saturday or Sunday; padding cells are empty
\* and not red; the red cells are the populated cells of columns 6 and 7.
C8_RedIsWeekend ==
    (Returned("new") /\ ret.tag = "Some")
        => \A r \in 1..Len(ret.val.days) : \A c \in 1..Len(ret.val.days[r]) :
              LET cell == ret.val.days[r][c]
                  populated == cell.txt # <<>>
              IN /\ populated => \E d \in 1..31 : cell.txt = DecimalText(d)
                 /\ ~populated => cell.red = FALSE
                 /\ cell.red <=>
                       /\ populated
                       /\ \E d \in 1..31 :
                             /\ cell.txt = DecimalText(d)
                             /\ ReferenceWeekday(call.year, call.order[1], d) \in {6, 7}
                 /\ cell.red <=> (populated /\ c \in {6, 7})

\* a month was built whose first row has a padding cell and red cells
C8_Witness ==
    /\ Returned("new")
    /\ ret.tag = "Some"
    /\ ret.val.days[1][1] = EmptyCell
    /\ ret.val.days[1][6].red /\ ret.val.days[1][7].red
    /\ ~ret.val.days[1][5].red /\ ret.val.days[1][5].txt # <<>>

\* C9: in a Month returned by Month::new every row has 1..7 cells, every
\* row but the first and the last has 7, the last row ends with the last
\* day (no empty cell in it), and the rows concatenated are the padding
\* followed by the day cells.
C9_RowShape ==
    (Returned("new") /\ ret.tag = "Some")
        => LET rows == ret.val.days
               last == rows[Len(rows)]
           IN /\ Len(rows) > 0
              /\ \A r \in 1..Len(rows) : Len(rows[r]) \in 1..7
              /\ \A r \in 2..(Len(rows) - 1) : Len(rows[r]) = 7
              /\ \A c \in 1..Len(last) : last[c].txt # <<>>
              /\ Flatten(rows) = ExpectedFlat(call.year, call.order[1])

\* a month was built whose first row is padded and whose last row is short
C9_Witness ==
    /\ Returned("new")
    /\ ret.tag = "Some"
    /\ ret.val.days[1][1] = EmptyCell
    /\ Len(ret.val.days[Len(ret.val.days)]) < 7

\* C10: for every month in 1..12 and every year whose first of that month
\* the date library can represent, Month::new succeeds, December of the
\* largest year included.
C10_NewSucceedsInRange ==
    (Returned("new") /\ ValidOrder(call.order) /\ call.year \in MIN_YEAR..MAX_YEAR)
        => ret.tag = "Some"

====
